---------------------------- MODULE Spec2Model ----------------------------
(***************************************************************************)
(* Model of the base-N codecs of mom: Base58/Base62 (mom/codec/_alt_base), *)
(* ASCII85 / RFC1924 Base85 and the 128-bit RFC1924 codec                  *)
(* (mom/codec/base85).                                                     *)
(*                                                                         *)
(* Bytes and text are sequences of octets (0..255, a character is its      *)
(* ASCII code).  Python integers are unbounded; TLC's are 32 bits wide, so *)
(* an unsigned integer is held as its big-endian base-256 digits without   *)
(* leading zeros (zero is the empty sequence) and the arithmetic the code  *)
(* uses (//, %, *, +, >) is done on the digits.                            *)
(*                                                                         *)
(* Byte strings behave as the code expects of them: indexing and iterating *)
(* one yields its one-character pieces, which compare equal to the         *)
(* one-character constants (ZERO_GROUP_CHAR, the characters of a charset). *)
(* A raised exception is the status of a result; -1 inside a computation   *)
(* stands for a failed table lookup.                                       *)
(***************************************************************************)
EXTENDS Integers, Sequences, FiniteSets

VARIABLES fn,      \* the function called last
          raw,     \* bytes given to the last encoder call
          num,     \* integer given to the last 128-bit encoder call
          text,    \* encoded text: an encoder's output, or text from the caller
          origin,  \* the encoder that produced text, "caller" otherwise
          cfg,     \* prefix, suffix, padding and compaction of the last Base85 call
          result,  \* outcome of the last call: [status, val]
          rnd      \* the call of generate_random_ulong_between: its arguments,
                   \* locals and outcome

vars == <<fn, raw, num, text, origin, cfg, result, rnd>>

-----------------------------------------------------------------------------
(* Generic sequence helpers (Python slicing and list operations).           *)

Repeat(c, n) == [i \in 1..n |-> c]

Drop(s, n) == SubSeq(s, n + 1, Len(s))

Take(s, n) == SubSeq(s, 1, n)

startswith(s, p) == Len(p) <= Len(s) /\ Take(s, Len(p)) = p

endswith(s, p) == Len(p) <= Len(s) /\ Drop(s, Len(s) - Len(p)) = p

\* Nothing replaced.
NoReplace(s, old, new) == s

\* bytes.replace(old, new): non-overlapping occurrences, left to right.
RECURSIVE replace(_, _, _)
replace(s, old, new) ==
    IF Len(s) < Len(old) THEN s
    ELSE IF startswith(s, old) THEN new \o replace(Drop(s, Len(old)), old, new)
    ELSE <<Head(s)>> \o replace(Tail(s), old, new)

\* mom.functional.leading(predicate, iterable) for the predicate w == c:
\* the number of leading elements equal to c.
RECURSIVE leading(_, _)
leading(c, s) ==
    IF s = <<>> \/ Head(s) # c THEN 0 ELSE 1 + leading(c, Tail(s))

-----------------------------------------------------------------------------
(* Unbounded unsigned integers as big-endian base-256 digits.               *)

RECURSIVE Norm(_)
Norm(s) == IF s = <<>> THEN s ELSE IF Head(s) = 0 THEN Norm(Tail(s)) ELSE s

\* divmod(n, d) for a small divisor d (schoolbook short division).
RECURSIVE ShortDiv(_, _, _, _, _)
ShortDiv(n, d, i, rem, q) ==
    IF i > Len(n) THEN [q |-> Norm(q), r |-> rem]
    ELSE LET cur == rem * 256 + n[i]
         IN  ShortDiv(n, d, i + 1, cur % d, Append(q, cur \div d))

FloorDiv(n, d) == ShortDiv(n, d, 1, 0, <<>>).q

Mod(n, d) == ShortDiv(n, d, 1, 0, <<>>).r

\* n * m + a for small m and a.
RECURSIVE MulAddStep(_, _, _, _, _)
MulAddStep(n, m, i, carry, acc) ==
    IF i = 0 THEN Norm(<<carry>> \o acc)
    ELSE LET cur == n[i] * m + carry
         IN  MulAddStep(n, m, i - 1, cur \div 256, <<cur % 256>> \o acc)

MulAdd(n, m, a) == MulAddStep(n, m, Len(n), a, <<>>)

\* a > b on normalised digit sequences.
Greater(a, b) ==
    \/ Len(a) > Len(b)
    \/ /\ Len(a) = Len(b)
       /\ \E i \in 1..Len(a) : a[i] > b[i] /\ \A j \in 1..(i - 1) : a[j] = b[j]

\* n // 85**k, by k divisions by 85.
RECURSIVE FloorDivPow85(_, _)
FloorDivPow85(n, k) ==
    IF k = 0 THEN Norm(n) ELSE FloorDiv(FloorDivPow85(n, k - 1), 85)

\* The value of a number below 256 as a TLC integer.
Small(n) == IF n = <<>> THEN 0 ELSE n[Len(n)]

-----------------------------------------------------------------------------
(* mom/codec/base85.py: module constants and tables.                        *)

UINT128_MAX == Repeat(255, 16)

UINT32_MAX == Repeat(255, 4)

ZERO_BYTE == <<0>>

EXCLAMATION_CHUNK == <<33, 33, 33, 33, 33>>

ZERO_GROUP_CHAR == <<122>>

ASCII85_PREFIX == <<60, 126>>

ASCII85_SUFFIX == <<126, 62>>

ascii85_chr(n) == n + 33

ascii85_ord(char) == char - 33

ASCII85_CHARS == [n \in 0..84 |-> ascii85_chr(n)]

ASCII85_ORDS == [x \in {ASCII85_CHARS[n] : n \in 0..84} |-> ascii85_ord(x)]

\* The punctuation with ';' mistyped as a second '+'.
RFC1924_STRING_Repeated ==
    [i \in 1..10 |-> 47 + i] \o [i \in 1..26 |-> 64 + i] \o [i \in 1..26 |-> 96 + i]
    \o <<33, 35, 36, 37, 38, 40, 41, 42, 43, 45, 43, 60, 61, 62, 63, 64,
         94, 95, 96, 123, 124, 125, 126>>

\* digits, upper case, lower case, then !#$%&()*+-;<=>?@^_`{|}~
RFC1924_STRING ==
    [i \in 1..10 |-> 47 + i] \o [i \in 1..26 |-> 64 + i] \o [i \in 1..26 |-> 96 + i]
    \o <<33, 35, 36, 37, 38, 40, 41, 42, 43, 45, 59, 60, 61, 62, 63, 64,
         94, 95, 96, 123, 124, 125, 126>>

RFC1924_CHARS == [n \in 0..(Len(RFC1924_STRING) - 1) |-> RFC1924_STRING[n + 1]]

RFC1924_ORDS ==
    [x \in {RFC1924_CHARS[n] : n \in DOMAIN RFC1924_CHARS} |->
        CHOOSE i \in DOMAIN RFC1924_CHARS : RFC1924_CHARS[i] = x]

\* \s of a bytes pattern: tab, newline, vertical tab, form feed, return, space.
IsWhitespace(c) == c \in {9, 10, 11, 12, 13, 32}

\* Only the space removed.
StripSpaces(s) == SelectSeq(s, LAMBDA c : c # 32)

\* re.sub(WHITESPACE_PATTERN, b'', encoded)
RECURSIVE StripWhitespace(_)
StripWhitespace(s) ==
    IF s = <<>> THEN s
    ELSE IF IsWhitespace(Head(s)) THEN StripWhitespace(Tail(s))
    ELSE <<Head(s)>> \o StripWhitespace(Tail(s))

Ok(v) == [status |-> "ok", val |-> v]

Raise(e) == [status |-> e, val |-> <<>>]


-----------------------------------------------------------------------------
(* mom/codec/base85.py: ASCII85 and RFC1924 Base85.                         *)

\* _base85_chars[q] for an integer q; -1 stands for an index out of range.
CharAt(chars, q) ==
    IF Len(q) <= 1 /\ Small(q) \in DOMAIN chars THEN chars[Small(q)] ELSE -1

\* The body of _check_compact_char_occurrence's loop from index i on;
\* TRUE when it raises ValueError.
RECURSIVE CompactCharLoop(_, _, _, _, _)
CompactCharLoop(encoded, zero_char, chunk_size, i, counter) ==
    IF i > Len(encoded) THEN FALSE
    ELSE IF encoded[i] = zero_char
         THEN IF counter % chunk_size # 0 THEN TRUE
              ELSE CompactCharLoop(encoded, zero_char, chunk_size, i + 1, 0)
         ELSE CompactCharLoop(encoded, zero_char, chunk_size, i + 1, counter + 1)

\* The check by the index of the symbol in the text.
CompactCharByIndex(encoded, zero_char, chunk_size) ==
    \E i \in 1..Len(encoded) : encoded[i] = zero_char /\ (i - 1) % chunk_size # 0

check_compact_char_occurrence(encoded, zero_char, chunk_size) ==
    CompactCharLoop(encoded, zero_char, chunk_size, 1, 0)

\* The five symbols of one big-endian 32-bit group x (the unrolled loop).
EncodeGroup(x, base85_chars) ==
    << CharAt(base85_chars, FloorDivPow85(x, 4)),
       base85_chars[Mod(FloorDivPow85(x, 3), 85)],
       base85_chars[Mod(FloorDivPow85(x, 2), 85)],
       base85_chars[Mod(FloorDiv(x, 85), 85)],
       base85_chars[Mod(x, 85)] >>

\* unpack('>' + 'L' * num_uint32, raw_bytes), encoded group by group.
RECURSIVE EncodeGroups(_, _, _)
EncodeGroups(raw_bytes, base85_chars, i) ==
    IF 4 * i > Len(raw_bytes) THEN <<>>
    ELSE EncodeGroup(Norm(SubSeq(raw_bytes, 4 * i - 3, 4 * i)), base85_chars)
         \o EncodeGroups(raw_bytes, base85_chars, i + 1)

\* if padding_size and not _padding: ascii_chars = ascii_chars[:-padding_size]
KeepPaddingChars(ascii_chars, padding_size, padding) == ascii_chars

\* The symbols removed whether or not the padding is to be kept.
StripPaddingAlways(ascii_chars, padding_size, padding) ==
    Take(ascii_chars, Len(ascii_chars) - padding_size)

StripPaddingChars(ascii_chars, padding_size, padding) ==
    IF padding_size # 0 /\ ~padding
    THEN Take(ascii_chars, Len(ascii_chars) - padding_size)
    ELSE ascii_chars

b85encode(raw_bytes, prefix, suffix, padding, base85_chars, compact_zero) ==
    LET remainder == Len(raw_bytes) % 4
        padding_size == IF remainder # 0 THEN 4 - remainder ELSE 0
        padded == raw_bytes \o Repeat(ZERO_BYTE[1], padding_size)
        ascii_chars == EncodeGroups(padded, base85_chars, 1)
        kept == StripPaddingChars(ascii_chars, padding_size, padding)
        encoded == IF compact_zero
                   THEN replace(kept, EXCLAMATION_CHUNK, ZERO_GROUP_CHAR)
                   ELSE kept
    IN  Ok(prefix \o encoded \o suffix)

\* The bytes of v without the leading zero bytes.
Pack32Unfilled(v) == v

\* pack(">L", v) for v <= 2**32 - 1
Pack32(v) == Repeat(0, 4 - Len(v)) \o v

\* A symbol that is missing from the table counted as ordinal 0.
RECURSIVE ChunkValueDefault(_, _, _, _)
ChunkValueDefault(chunk, base85_ords, i, acc) ==
    IF i > Len(chunk) THEN acc
    ELSE LET ordinal == IF chunk[i] \in DOMAIN base85_ords
                        THEN base85_ords[chunk[i]] ELSE 0
         IN  ChunkValueDefault(chunk, base85_ords, i + 1, MulAdd(acc, 85, ordinal))

\* The value of one 5-symbol chunk; <<-1>> stands for a KeyError.
RECURSIVE ChunkValue(_, _, _, _)
ChunkValue(chunk, base85_ords, i, acc) ==
    IF i > Len(chunk) THEN acc
    ELSE IF chunk[i] \notin DOMAIN base85_ords THEN <<-1>>
    ELSE ChunkValue(chunk, base85_ords, i + 1, MulAdd(acc, 85, base85_ords[chunk[i]]))

\* if uint32_value > 4294967295
ChunkOverflowsLax(uint32_value) == Greater(uint32_value, <<1, 0, 0, 0, 0>>)

ChunkOverflows(uint32_value) == Greater(uint32_value, UINT32_MAX)

\* The loop over the chunks from offset i on: the packed groups, or OverflowError.
RECURSIVE DecodeChunks(_, _, _, _)
DecodeChunks(encoded, base85_ords, i, acc) ==
    IF i >= Len(encoded) THEN Ok(acc)
    ELSE LET uint32_value == ChunkValue(SubSeq(encoded, i + 1, i + 5), base85_ords, 1, <<>>)
         IN  IF uint32_value = <<-1>> THEN Raise("OverflowError")
             ELSE IF ChunkOverflows(uint32_value) THEN Raise("OverflowError")
             ELSE DecodeChunks(encoded, base85_ords, i + 5, acc \o Pack32(uint32_value))

\* The text without whitespace and without the prefix and the suffix.
Unwrap(encoded, prefix, suffix) ==
    LET stripped == StripWhitespace(encoded)
        noprefix == IF prefix # <<>> /\ startswith(stripped, prefix)
                    THEN Drop(stripped, Len(prefix)) ELSE stripped
    IN  IF suffix # <<>> /\ endswith(noprefix, suffix)
        THEN Take(noprefix, Len(noprefix) - Len(suffix)) ELSE noprefix

b85decode(encoded, prefix, suffix, base85_ords, base85_chars, uncompact_zero) ==
    LET nosuffix == Unwrap(encoded, prefix, suffix)
        expanded == IF uncompact_zero
                    THEN replace(nosuffix, ZERO_GROUP_CHAR, EXCLAMATION_CHUNK)
                    ELSE nosuffix
        remainder == Len(expanded) % 5
        padding_size == IF remainder # 0 THEN 5 - remainder ELSE 0
        padded == expanded \o Repeat(base85_chars[84], padding_size)
        unpacked == DecodeChunks(padded, base85_ords, 0, <<>>)
    IN  IF uncompact_zero /\ check_compact_char_occurrence(nosuffix, ZERO_GROUP_CHAR[1], 5)
        THEN Raise("ValueError")
        ELSE IF unpacked.status # "ok" THEN unpacked
        ELSE Ok(Take(unpacked.val, Len(unpacked.val) - padding_size))

rfc1924_b85encode(raw_bytes, padding) ==
    b85encode(raw_bytes, <<>>, <<>>, padding, RFC1924_CHARS, FALSE)

rfc1924_b85decode(encoded) ==
    b85decode(encoded, <<>>, <<>>, RFC1924_ORDS, RFC1924_CHARS, FALSE)

-----------------------------------------------------------------------------
(* mom/codec/base85.py: the 128-bit codec.  An integer argument is a sign   *)
(* and a magnitude: [neg |-> BOOLEAN, mag |-> digits].                      *)

\* The unrolled expression with the power of position 10 mistyped.
RECURSIVE Ipv6SymbolsTypo(_, _, _)
Ipv6SymbolsTypo(uint128, base85_chars, k) ==
    LET symbol == IF k = 19 THEN CharAt(base85_chars, FloorDivPow85(uint128, 19))
                  ELSE base85_chars[Mod(FloorDivPow85(uint128, IF k = 10 THEN 11 ELSE k), 85)]
    IN  IF k = 0 THEN <<symbol>>
        ELSE <<symbol>> \o Ipv6SymbolsTypo(uint128, base85_chars, k - 1)

\* The twenty symbols from position k down to 0 (the unrolled expression):
\* position 19 is indexed without % 85.
RECURSIVE Ipv6Symbols(_, _, _)
Ipv6Symbols(uint128, base85_chars, k) ==
    LET symbol == IF k = 19 THEN CharAt(base85_chars, FloorDivPow85(uint128, 19))
                  ELSE base85_chars[Mod(FloorDivPow85(uint128, k), 85)]
    IN  IF k = 0 THEN <<symbol>>
        ELSE <<symbol>> \o Ipv6Symbols(uint128, base85_chars, k - 1)

\* Without the check of the upper end of the range.
ipv6_b85encode_unchecked(uint128) ==
    IF uint128.neg THEN Raise("ValueError")
    ELSE Ok(Ipv6Symbols(uint128.mag, RFC1924_CHARS, 19))

ipv6_b85encode(uint128) ==
    IF uint128.neg THEN Raise("ValueError")
    ELSE IF Greater(uint128.mag, UINT128_MAX) THEN Raise("OverflowError")
    ELSE Ok(Ipv6Symbols(uint128.mag, RFC1924_CHARS, 19))

\* uint128 * 85 + _base85_ords[encoded[i]] over encoded[i..]; <<-1>> stands
\* for a KeyError.
RECURSIVE Ipv6Fold(_, _, _, _)
Ipv6Fold(encoded, base85_ords, i, uint128) ==
    IF i > Len(encoded) THEN uint128
    ELSE IF encoded[i] \notin DOMAIN base85_ords THEN <<-1>>
    ELSE Ipv6Fold(encoded, base85_ords, i + 1,
                  MulAdd(uint128, 85, base85_ords[encoded[i]]))

ipv6_b85decode(encoded) ==
    IF Len(encoded) # 20 THEN Raise("ValueError")
    ELSE LET uint128 == Ipv6Fold(encoded, RFC1924_ORDS, 1, <<>>)
         IN  IF uint128 = <<-1>> THEN Raise("KeyError") ELSE Ok(uint128)

-----------------------------------------------------------------------------
(* mom/codec/_alt_base.py: Base58, Base62 and the iterative 128-bit decoder. *)

\* mom.codec.integer.bytes_to_uint: the big-endian value of the bytes.
bytes_to_uint(raw_bytes) == Norm(raw_bytes)

\* mom.codec.uint_to_bytes: the shortest big-endian bytes, one zero byte for 0.
uint_to_bytes(number) == IF number = <<>> THEN <<0>> ELSE number

\* "123456789ABCDEFGHJKLMNPQRSTUVWXYZabcdefghijkmnopqrstuvwxyz"
ASCII58_STRING ==
    [i \in 1..9 |-> 48 + i] \o [i \in 1..8 |-> 64 + i] \o [i \in 1..5 |-> 73 + i]
    \o [i \in 1..11 |-> 79 + i] \o [i \in 1..11 |-> 96 + i] \o [i \in 1..14 |-> 108 + i]

ASCII58_CHARSET == [n \in 0..(Len(ASCII58_STRING) - 1) |-> ASCII58_STRING[n + 1]]

ASCII58_ORDS ==
    [x \in {ASCII58_CHARSET[n] : n \in DOMAIN ASCII58_CHARSET} |->
        CHOOSE i \in DOMAIN ASCII58_CHARSET : ASCII58_CHARSET[i] = x]

\* digits, upper case, lower case
ASCII62_STRING ==
    [i \in 1..10 |-> 47 + i] \o [i \in 1..26 |-> 64 + i] \o [i \in 1..26 |-> 96 + i]

ASCII62_CHARSET == [n \in 0..(Len(ASCII62_STRING) - 1) |-> ASCII62_STRING[n + 1]]

ASCII62_ORDS ==
    [x \in {ASCII62_CHARSET[n] : n \in DOMAIN ASCII62_CHARSET} |->
        CHOOSE i \in DOMAIN ASCII62_CHARSET : ASCII62_CHARSET[i] = x]

\* a + b
RECURSIVE AddStep(_, _, _, _, _)
AddStep(a, b, i, carry, acc) ==
    IF i >= Len(a) /\ i >= Len(b) THEN Norm(<<carry>> \o acc)
    ELSE LET da == IF i < Len(a) THEN a[Len(a) - i] ELSE 0
             db == IF i < Len(b) THEN b[Len(b) - i] ELSE 0
             cur == da + db + carry
         IN  AddStep(a, b, i + 1, cur \div 256, <<cur % 256>> \o acc)

Add(a, b) == AddStep(a, b, 0, 0, <<>>)

\* base**i
RECURSIVE Pow(_, _)
Pow(base, i) == IF i = 0 THEN <<1>> ELSE MulAdd(Pow(base, i - 1), base, 0)

\* The loop entered once before number is tested: zero gets a digit.
RECURSIVE EncodeLoopZeroDigit(_, _, _, _)
EncodeLoopZeroDigit(number, charset, base, encoded) ==
    LET next == <<charset[Mod(number, base)]>> \o encoded
    IN  IF FloorDiv(number, base) = <<>> THEN next
        ELSE EncodeLoopZeroDigit(FloorDiv(number, base), charset, base, next)

\* while number > 0: encoded = _charset[number % base] + encoded; number //= base
RECURSIVE EncodeLoop(_, _, _, _)
EncodeLoop(number, charset, base, encoded) ==
    IF number = <<>> THEN encoded
    ELSE EncodeLoop(FloorDiv(number, base), charset, base,
                    <<charset[Mod(number, base)]>> \o encoded)

b58encode_naive(raw_bytes) ==
    LET number == bytes_to_uint(raw_bytes)
        encoded == EncodeLoop(number, ASCII58_CHARSET, 58, <<>>)
        zero_leading == leading(ZERO_BYTE[1], raw_bytes)
    IN  Ok(Repeat(ASCII58_CHARSET[0], zero_leading) \o encoded)

\* With _padding false: the numeric part alone.
b62encode_unpadded(raw_bytes) ==
    Ok(EncodeLoop(bytes_to_uint(raw_bytes), ASCII62_CHARSET, 62, <<>>))

b62encode_naive(raw_bytes) ==
    LET number == bytes_to_uint(raw_bytes)
        encoded == EncodeLoop(number, ASCII62_CHARSET, 62, <<>>)
        zero_leading == leading(ZERO_BYTE[1], raw_bytes)
    IN  Ok(Repeat(ASCII62_CHARSET[0], zero_leading) \o encoded)

\* for i, x in enumerate(reversed(encoded)): number += _lookup[x] * (base**i)
\* <<-1>> stands for a KeyError.
RECURSIVE DecodeLoop(_, _, _, _, _)
DecodeLoop(encoded, lookup, base, i, number) ==
    IF i >= Len(encoded) THEN number
    ELSE LET x == encoded[Len(encoded) - i]
         IN  IF x \notin DOMAIN lookup THEN <<-1>>
             ELSE DecodeLoop(encoded, lookup, base, i + 1,
                             Add(number, MulAdd(Pow(base, i), lookup[x], 0)))

\* Without the test of number: zero becomes one zero byte.
DecodeNumberOffByOne(encoded, charset, lookup, base) ==
    LET number == DecodeLoop(encoded, lookup, base, 0, <<>>)
        raw_bytes == uint_to_bytes(number)
        zero_leading == leading(charset[0], encoded)
    IN  IF number = <<-1>> THEN Raise("KeyError")
        ELSE IF zero_leading # 0
             THEN Ok(Repeat(ZERO_BYTE[1], zero_leading) \o raw_bytes)
             ELSE Ok(raw_bytes)

\* The part of both decoders after the whitespace was removed.
DecodeNumber(encoded, charset, lookup, base) ==
    LET number == DecodeLoop(encoded, lookup, base, 0, <<>>)
        raw_bytes == IF number # <<>> THEN uint_to_bytes(number) ELSE <<>>
        zero_leading == leading(charset[0], encoded)
    IN  IF number = <<-1>> THEN Raise("KeyError")
        ELSE IF zero_leading # 0
             THEN Ok(Repeat(ZERO_BYTE[1], zero_leading) \o raw_bytes)
             ELSE Ok(raw_bytes)

b62decode_naive(encoded) ==
    DecodeNumber(StripWhitespace(encoded), ASCII62_CHARSET, ASCII62_ORDS, 62)

b58decode_naive(encoded) ==
    DecodeNumber(StripWhitespace(encoded), ASCII58_CHARSET, ASCII58_ORDS, 58)

\* b('').join(encoded.split())
split_join(encoded) == SelectSeq(encoded, LAMBDA c : ~IsWhitespace(c))

ipv6_b85decode_naive(encoded) ==
    LET joined == split_join(encoded)
        uint128 == Ipv6Fold(joined, RFC1924_ORDS, 1, <<>>)
    IN  IF Len(joined) # 20 THEN Raise("ValueError")
        ELSE IF uint128 = <<-1>> THEN Raise("OverflowError")
        ELSE IF Greater(uint128, UINT128_MAX) THEN Raise("OverflowError")
        ELSE Ok(uint128)

\* RFC1924_BYTES, which _alt_base.py imports from mom.codec.base85: the
\* character codes of the RFC1924 alphabet by ordinal.
RFC1924_BYTES == RFC1924_CHARS

\* The loop run over the positions in increasing order.
RECURSIVE Ipv6NaiveLoopForward(_, _, _, _)
Ipv6NaiveLoopForward(uint128, base85_bytes, encoded, pos) ==
    IF pos < 0 THEN encoded
    ELSE Ipv6NaiveLoopForward(FloorDiv(uint128, 85), base85_bytes,
                              [encoded EXCEPT ![19 - pos] = base85_bytes[Mod(uint128, 85)]],
                              pos - 1)

\* for i in reversed(encoded): uint128, remainder = divmod(uint128, 85);
\* encoded[i] = _base85_bytes[remainder].  The iteration reads encoded[pos]
\* for pos = 19 down to 0 while the loop assigns to encoded.
RECURSIVE Ipv6NaiveLoop(_, _, _, _)
Ipv6NaiveLoop(uint128, base85_bytes, encoded, pos) ==
    IF pos < 0 THEN encoded
    ELSE LET i == encoded[pos]
         IN  Ipv6NaiveLoop(FloorDiv(uint128, 85), base85_bytes,
                           [encoded EXCEPT ![i] = base85_bytes[Mod(uint128, 85)]],
                           pos - 1)

ipv6_b85encode_naive(uint128) ==
    IF uint128.neg THEN Raise("ValueError")
    ELSE IF Greater(uint128.mag, UINT128_MAX) THEN Raise("OverflowError")
    ELSE LET encoded == Ipv6NaiveLoop(uint128.mag, RFC1924_BYTES,
                                      [i \in 0..19 |-> i], 19)
         IN  Ok([k \in 1..20 |-> encoded[k - 1]])

-----------------------------------------------------------------------------
(* mom/security/random.py: random integers.  These are small, so they are   *)
(* TLC integers.                                                            *)

\* mom.builtins.long_bit_length: the number of bits of number, 0 for 0.
RECURSIVE long_bit_length(_)
long_bit_length(number) ==
    IF number = 0 THEN 0 ELSE 1 + long_bit_length(number \div 2)

\* mom.codec.bytes_to_long: the big-endian value of the bytes.
RECURSIVE bytes_to_long(_)
bytes_to_long(random_bytes) ==
    IF random_bytes = <<>> THEN 0
    ELSE 256 * bytes_to_long(Take(random_bytes, Len(random_bytes) - 1))
         + random_bytes[Len(random_bytes)]

RECURSIVE Pow2(_)
Pow2(n) == IF n = 0 THEN 1 ELSE 2 * Pow2(n - 1)

\* q, r = divmod(n_bits, 8); if r: q += 1
ByteCount(n_bits) == IF n_bits % 8 # 0 THEN n_bits \div 8 + 1 ELSE n_bits \div 8

\* The outcome for the bytes rand_func gave; the ValueError is raised before
\* any are asked for.
generate_random_ulong_atmost(n_bits, random_bytes) ==
    IF n_bits <= 0 THEN [status |-> "ValueError", value |-> 0]
    ELSE [status |-> "ok", value |-> bytes_to_long(random_bytes) % Pow2(n_bits)]

-----------------------------------------------------------------------------
(* Bounds and the inputs the calls are made with.                           *)

MaxBaseNLen == 3      \* bytes given to the Base58/Base62 encoders

MaxRawLen == 7        \* bytes given to the Base85 encoders

MaxShortLen == 3      \* the same, over more byte values

MaxTokens == 2        \* pieces a text from the caller is put together from

MaxIpv6Bytes == 17    \* width in bytes of the integers given to ipv6_b85encode

SeqsUpTo(S, n) == UNION {[1..k -> S] : k \in 0..n}

BaseNInputs == SeqsUpTo({0, 1, 58, 255}, MaxBaseNLen)

Base85Inputs ==
    SeqsUpTo({0, 255}, MaxRawLen) \cup SeqsUpTo({0, 1, 9, 94, 237}, MaxShortLen)

\* Integers h bytes of a followed by bytes of b, of every width up to the bound.
Magnitudes ==
    {Norm(Repeat(a, h) \o Repeat(b, n - h)) :
        a \in {1, 255}, b \in {0, 255}, h \in 0..1, n \in 1..MaxIpv6Bytes}
    \cup {Norm(Repeat(255, n - 1) \o <<b>>) : b \in {0, 84, 85, 254}, n \in 1..MaxIpv6Bytes}

Ipv6Inputs ==
    {[neg |-> FALSE, mag |-> m] : m \in Magnitudes \cup {<<>>}}
    \cup {[neg |-> TRUE, mag |-> m] : m \in {<<1>>, UINT128_MAX}}

NoWrap == [prefix |-> <<>>, suffix |-> <<>>]

Ascii85Wrap == [prefix |-> ASCII85_PREFIX, suffix |-> ASCII85_SUFFIX]

Wraps == {NoWrap, Ascii85Wrap}

MaxSpan == 9          \* greatest high - low given to generate_random_ulong_between

Lows == -1..1

\* What rand_func(count) may return.
RandomBytes(count) == [1..count -> 0..255]

NoCfg == [prefix |-> <<>>, suffix |-> <<>>, padding |-> FALSE, compact |-> FALSE]

RECURSIVE Concat(_)
Concat(ts) == IF ts = <<>> THEN <<>> ELSE Head(ts) \o Concat(Tail(ts))

TokenTexts(tokens) == {Concat(ts) : ts \in SeqsUpTo(tokens, MaxTokens)}

\* t, and t with a newline put in at any one position
NewlineVariants(t) == {t} \cup {Take(t, p) \o <<10>> \o Drop(t, p) : p \in 0..Len(t)}

WithNewlines(texts) == UNION {NewlineVariants(t) : t \in texts}

\* "s8W-!" is 2**32 - 1 in ASCII85, "|NsC0" in RFC1924;
\* "=r54lj&NUUO~Hi%c2ym0" is 2**128 - 1.
S8W == <<115, 56, 87, 45>>

NSC == <<124, 78, 115, 67>>

IPV6_19 == <<61, 114, 53, 52, 108, 106, 38, 78, 85, 85, 79, 126, 72, 105, 37, 99, 50, 121, 109>>

Ascii85Tokens ==
    {S8W \o <<33>>, S8W \o <<34>>, S8W, <<33, 33>>, ZERO_GROUP_CHAR, <<32>>}

Rfc1924Tokens == {NSC \o <<48>>, NSC \o <<49>>, NSC, <<48>>, <<34>>, <<32>>}

Ipv6Tokens == {IPV6_19, IPV6_19 \o <<48>>, IPV6_19 \o <<49>>, <<48>>, <<34>>, <<32>>}

BaseNTokens == {<<48>>, <<49>>, <<49, 122>>, <<90, 48>>, <<33>>, <<32>>}

\* Twenty symbols: h of a, then b.
Ipv6Patterns ==
    {Repeat(a, h) \o Repeat(b, 20 - h) : a \in {48, 61, 126}, b \in {48, 126}, h \in 0..20}

Ascii85Texts == WithNewlines(TokenTexts(Ascii85Tokens))

WrappedTexts == {ASCII85_PREFIX \o t \o ASCII85_SUFFIX : t \in Ascii85Texts}

OtherTexts ==
    WithNewlines(TokenTexts(Rfc1924Tokens) \cup TokenTexts(Ipv6Tokens)
                 \cup TokenTexts(BaseNTokens))
    \cup Ipv6Patterns

CallerTexts == Ascii85Texts \cup WrappedTexts \cup OtherTexts

-----------------------------------------------------------------------------
(* The calls.  A caller gets a text, by an encoder or from elsewhere, hands *)
(* it to a decoder, and is done.                                            *)

Encoders == {"b58encode_naive", "b62encode_naive", "b85encode",
             "rfc1924_b85encode", "ipv6_b85encode", "ipv6_b85encode_naive"}

NoResult == [status |-> "none", val |-> <<>>]

NoNum == [neg |-> FALSE, mag |-> <<>>]

NoRnd == [low |-> 0, high |-> 0, r |-> 0, bits |-> 0, value |-> 0,
          status |-> "none", ret |-> 0]

Init ==
    /\ fn = "idle"
    /\ rnd = NoRnd
    /\ raw = <<>>
    /\ num = NoNum
    /\ text = <<>>
    /\ origin = "none"
    /\ cfg = NoCfg
    /\ result = NoResult

\* An encoder returned r: its text is the current text.
Encoded(name, r) ==
    /\ fn' = name
    /\ result' = r
    /\ text' = r.val
    /\ origin' = name
    /\ UNCHANGED rnd

Call_b58encode_naive ==
    /\ fn = "idle"
    /\ \E x \in BaseNInputs :
        /\ raw' = x
        /\ Encoded("b58encode_naive", b58encode_naive(x))
    /\ UNCHANGED <<num, cfg>>

Call_b62encode_naive ==
    /\ fn = "idle"
    /\ \E x \in BaseNInputs :
        /\ raw' = x
        /\ Encoded("b62encode_naive", b62encode_naive(x))
    /\ UNCHANGED <<num, cfg>>

Call_b85encode ==
    /\ fn = "idle"
    /\ \E x \in Base85Inputs, w \in Wraps, padding \in BOOLEAN, compact \in BOOLEAN :
        /\ raw' = x
        /\ cfg' = [prefix |-> w.prefix, suffix |-> w.suffix,
                   padding |-> padding, compact |-> compact]
        /\ Encoded("b85encode",
                   b85encode(x, w.prefix, w.suffix, padding, ASCII85_CHARS, compact))
    /\ UNCHANGED num

Call_rfc1924_b85encode ==
    /\ fn = "idle"
    /\ \E x \in Base85Inputs, padding \in BOOLEAN :
        /\ raw' = x
        /\ cfg' = [NoCfg EXCEPT !.padding = padding]
        /\ Encoded("rfc1924_b85encode", rfc1924_b85encode(x, padding))
    /\ UNCHANGED num

Call_ipv6_b85encode ==
    /\ fn = "idle"
    /\ \E v \in Ipv6Inputs :
        /\ num' = v
        /\ Encoded("ipv6_b85encode", ipv6_b85encode(v))
    /\ UNCHANGED <<raw, cfg>>

Call_ipv6_b85encode_naive ==
    /\ fn = "idle"
    /\ \E v \in Ipv6Inputs :
        /\ num' = v
        /\ Encoded("ipv6_b85encode_naive", ipv6_b85encode_naive(v))
    /\ UNCHANGED <<raw, cfg>>

\* Text that no call of this model produced, to be decoded with or without
\* the ASCII85 prefix and suffix.
CallerText ==
    /\ fn = "idle"
    /\ \E t \in CallerTexts :
        \E w \in (IF t \in Ascii85Texts \cup WrappedTexts THEN Wraps ELSE {NoWrap}) :
            /\ text' = t
            /\ cfg' = [NoCfg EXCEPT !.prefix = w.prefix, !.suffix = w.suffix,
                                    !.compact = TRUE]
    /\ fn' = "caller"
    /\ origin' = "caller"
    /\ result' = NoResult
    /\ UNCHANGED <<raw, num, rnd>>

HasText == fn \in Encoders \cup {"caller"} /\ (fn \in Encoders => result.status = "ok")

Decoded(name, r) ==
    /\ HasText
    /\ fn' = name
    /\ result' = r
    /\ UNCHANGED <<raw, num, text, origin, cfg, rnd>>

Call_b58decode_naive == Decoded("b58decode_naive", b58decode_naive(text))

Call_b62decode_naive == Decoded("b62decode_naive", b62decode_naive(text))

\* decoded with the prefix and suffix the text was encoded with
Call_b85decode ==
    Decoded("b85decode",
            b85decode(text, cfg.prefix, cfg.suffix, ASCII85_ORDS, ASCII85_CHARS, TRUE))

Call_rfc1924_b85decode == Decoded("rfc1924_b85decode", rfc1924_b85decode(text))

Call_ipv6_b85decode == Decoded("ipv6_b85decode", ipv6_b85decode(text))

Call_ipv6_b85decode_naive == Decoded("ipv6_b85decode_naive", ipv6_b85decode_naive(text))

Decoders == {"b58decode_naive", "b62decode_naive", "b85decode", "rfc1924_b85decode",
             "ipv6_b85decode", "ipv6_b85decode_naive"}

\* The call returned (or raised) and nothing of it is kept.
Return ==
    /\ fn \in Decoders \/ (fn \in Encoders /\ result.status # "ok")
    /\ fn' = "idle"
    /\ raw' = <<>>
    /\ num' = NoNum
    /\ text' = <<>>
    /\ origin' = "none"
    /\ cfg' = NoCfg
    /\ result' = NoResult
    /\ UNCHANGED rnd

Codec == <<raw, num, text, origin, cfg, result>>

\* One call of generate_random_ulong_atmost(bits) by the call in progress:
\* the value is returned if it is at most r, and drawn again otherwise.
Draw(call) ==
    \E random_bytes \in RandomBytes(ByteCount(call.bits)) :
        LET value == generate_random_ulong_atmost(call.bits, random_bytes).value
        IN  rnd' = IF value > call.r
                   THEN [call EXCEPT !.value = value, !.status = "drawing"]
                   ELSE [call EXCEPT !.value = value, !.status = "ok",
                                     !.ret = call.low + value]

\* generate_random_ulong_between(low, high) up to its first test of value.
Call_generate_random_ulong_between ==
    /\ fn = "idle"
    /\ fn' = "generate_random_ulong_between"
    /\ \E low \in Lows, high \in (-1)..(1 + MaxSpan) :
        /\ high - low <= MaxSpan
        /\ LET r == high - low - 1
               bits == long_bit_length(r)
               call == [NoRnd EXCEPT !.low = low, !.high = high]
           IN  IF low >= high THEN rnd' = [call EXCEPT !.status = "ValueError"]
               ELSE IF generate_random_ulong_atmost(bits, <<>>).status = "ValueError"
               THEN rnd' = [call EXCEPT !.r = r, !.bits = bits, !.status = "ValueError"]
               ELSE Draw([call EXCEPT !.r = r, !.bits = bits])
    /\ UNCHANGED Codec

\* while value > r: value = generate_random_ulong_atmost(bits)
Redraw ==
    /\ fn = "generate_random_ulong_between"
    /\ rnd.status = "drawing"
    /\ Draw(rnd)
    /\ UNCHANGED <<fn, Codec>>

\* return low + value, or the exception leaves the call
ReturnRandom ==
    /\ fn = "generate_random_ulong_between"
    /\ rnd.status \in {"ok", "ValueError"}
    /\ fn' = "idle"
    /\ rnd' = NoRnd
    /\ UNCHANGED Codec

Next ==
    \/ Call_b58encode_naive
    \/ Call_b62encode_naive
    \/ Call_b85encode
    \/ Call_rfc1924_b85encode
    \/ Call_ipv6_b85encode
    \/ Call_ipv6_b85encode_naive
    \/ CallerText
    \/ Call_b58decode_naive
    \/ Call_b62decode_naive
    \/ Call_b85decode
    \/ Call_rfc1924_b85decode
    \/ Call_ipv6_b85decode
    \/ Call_ipv6_b85decode_naive
    \/ Return
    \/ Call_generate_random_ulong_between
    \/ Redraw
    \/ ReturnRandom

Spec == Init /\ [][Next]_vars

-----------------------------------------------------------------------------
(* Properties.                                                              *)

\* The text without any whitespace character.
NoWhitespace(t) == SelectSeq(t, LAMBDA c : c \notin {9, 10, 11, 12, 13, 32})

HasWhitespace(t) == \E i \in 1..Len(t) : t[i] \in {9, 10, 11, 12, 13, 32}

InUint128(v) == ~v.neg /\ Len(v.mag) <= 16

\* C1: Base58 and Base62 decoding of the encoding of x returns exactly x, for
\* every x: empty, all zero bytes, any number of leading zero bytes.
C1_BaseN_RoundTrip ==
    /\ (fn = "b58decode_naive" /\ origin = "b58encode_naive") => result = Ok(raw)
    /\ (fn = "b62decode_naive" /\ origin = "b62encode_naive") => result = Ok(raw)

C1_Witness ==
    /\ fn = "b62decode_naive" /\ origin = "b62encode_naive"
    /\ raw = <<0, 0, 255>>
    /\ result = Ok(raw)

\* C2: ASCII85 decoding of the ASCII85 encoding of x, compaction on and the same
\* prefix and suffix on both sides, returns exactly x and raises no error.
C2_Ascii85_RoundTrip ==
    (fn = "b85decode" /\ origin = "b85encode" /\ cfg.compact /\ ~cfg.padding)
        => result = Ok(raw)

\* C3: RFC1924 decoding of the RFC1924 encoding of x returns exactly x, for x of
\* any length.
C3_Rfc1924_RoundTrip ==
    (fn = "rfc1924_b85decode" /\ origin = "rfc1924_b85encode" /\ ~cfg.padding)
        => result = Ok(raw)

C3_Witness ==
    /\ fn = "rfc1924_b85decode" /\ origin = "rfc1924_b85encode" /\ ~cfg.padding
    /\ Len(raw) = 7 /\ raw[5] = 255
    /\ result = Ok(raw)

\* C4: every v in 0 .. 2**128 - 1 is encoded, and ipv6_b85decode of its
\* encoding is v.
C4_Ipv6_RoundTrip ==
    /\ (fn = "ipv6_b85encode" /\ InUint128(num)) => result.status = "ok"
    /\ (fn = "ipv6_b85decode" /\ origin = "ipv6_b85encode") => result = Ok(num.mag)

C4_Witness ==
    /\ fn = "ipv6_b85decode" /\ origin = "ipv6_b85encode"
    /\ num.mag = UINT128_MAX
    /\ result = Ok(UINT128_MAX)

Ipv6Decoders == {"ipv6_b85decode", "ipv6_b85decode_naive"}

IsRfc1924Text(t) == \A i \in 1..Len(t) : t[i] \in {RFC1924_CHARS[n] : n \in 0..84}

\* C5: the 128-bit decoder returns no value above 2**128 - 1: twenty symbols
\* whose value is above it make it fail with an OverflowError.
C5_Ipv6_Decode_Overflow ==
    (fn \in Ipv6Decoders /\ Len(text) = 20 /\ IsRfc1924Text(text))
        => IF result.status = "ok" THEN Len(result.val) <= 16
           ELSE result = Raise("OverflowError")

\* C6: the 128-bit decoder ignores whitespace: twenty symbols and any
\* whitespace decode as the twenty symbols alone do, and 19 or 21 symbols
\* besides the whitespace fail with a ValueError (the length error).
C6_Ipv6_Decode_Whitespace ==
    LET symbols == NoWhitespace(text)
    IN  /\ (fn = "ipv6_b85decode" /\ Len(symbols) = 20)
            => result = ipv6_b85decode(symbols)
        /\ (fn = "ipv6_b85decode_naive" /\ Len(symbols) = 20)
            => result = ipv6_b85decode_naive(symbols)
        /\ (fn \in Ipv6Decoders /\ Len(symbols) \in {19, 21})
            => result = Raise("ValueError")

\* C7: ipv6_b85encode returns exactly 20 symbols of the RFC1924 alphabet for
\* every v in 0 .. 2**128 - 1, and fails with a range error (ValueError below
\* the range, OverflowError above it) and no text for every other v.
C7_Ipv6_Encode_Range ==
    fn = "ipv6_b85encode" =>
        IF InUint128(num)
        THEN result.status = "ok" /\ Len(result.val) = 20 /\ IsRfc1924Text(result.val)
        ELSE /\ result = Raise(IF num.neg THEN "ValueError" ELSE "OverflowError")
             /\ text = <<>>

C7_Witness ==
    /\ fn = "ipv6_b85encode"
    /\ num = [neg |-> FALSE, mag |-> <<1>> \o Repeat(0, 16)]
    /\ result = Raise("OverflowError")

\* The value of five base-85 digits in two 16-bit halves, most significant
\* digit first.
RECURSIVE Halves(_, _, _, _)
Halves(digits, i, hi, lo) ==
    IF i > Len(digits) THEN [hi |-> hi, lo |-> lo]
    ELSE LET low == lo * 85 + digits[i]
         IN  Halves(digits, i + 1, hi * 85 + low \div 65536, low % 65536)

BigEndian32(h) == <<h.hi \div 256, h.hi % 256, h.lo \div 256, h.lo % 256>>

RECURSIVE ConcatGroups(_, _)
ConcatGroups(hs, k) ==
    IF k > Len(hs) THEN <<>> ELSE BigEndian32(hs[k]) \o ConcatGroups(hs, k + 1)

Base85Decoders == {"b85decode", "rfc1924_b85decode"}

\* The symbols the chunks are cut from: the text without whitespace, prefix
\* and suffix, each 'z' written out.
ChunkSymbols ==
    IF fn = "b85decode"
    THEN replace(Unwrap(text, cfg.prefix, cfg.suffix), ZERO_GROUP_CHAR, EXCLAMATION_CHUNK)
    ELSE NoWhitespace(text)

WellFormed ==
    LET ords == IF fn = "b85decode" THEN ASCII85_ORDS ELSE RFC1924_ORDS
    IN  /\ fn \in Base85Decoders
        /\ result.status # "ValueError"
        /\ \A i \in 1..Len(ChunkSymbols) : ChunkSymbols[i] \in DOMAIN ords

\* C8: a 5-symbol chunk of value at most 2**32 - 1 is packed as a big-endian
\* 32-bit group, a chunk of a greater value makes the decode fail with an
\* OverflowError; the last chunk counts as padded with the symbol of ordinal 84.
C8_Chunk_Overflow ==
    LET ords == IF fn = "b85decode" THEN ASCII85_ORDS ELSE RFC1924_ORDS
        pad == (5 - (Len(ChunkSymbols) % 5)) % 5
        digits == [i \in 1..Len(ChunkSymbols) |-> ords[ChunkSymbols[i]]] \o Repeat(84, pad)
        n == Len(digits) \div 5
        halves == [k \in 1..n |-> Halves(SubSeq(digits, 5 * k - 4, 5 * k), 1, 0, 0)]
        bytes == ConcatGroups(halves, 1)
    IN  WellFormed =>
            IF \E k \in 1..n : halves[k].hi > 65535
            THEN result = Raise("OverflowError")
            ELSE result = Ok(Take(bytes, 4 * n - pad))

C8_Witness ==
    /\ fn = "b85decode" /\ origin = "caller"
    /\ text = S8W \o <<34>>
    /\ result = Raise("OverflowError")

\* The index of the symbol at i once every 'z' before it is written out as
\* five symbols.
ExpandedIndex(s, i) ==
    LET before == SubSeq(s, 1, i - 1)
        zs == Len(SelectSeq(before, LAMBDA c : c = 122))
    IN  (Len(before) - zs) + 5 * zs

Misplaced(s, index(_, _)) ==
    \E i \in 1..Len(s) : s[i] = 122 /\ index(s, i) % 5 # 0

TextIndex(s, i) == i - 1

\* C9 as stated: a 'z' is accepted only at an index of the text (whitespace,
\* prefix and suffix removed) that is a multiple of 5; a 'z' at any other index
\* fails with a ValueError (the malformed compaction error).
C9_Compaction_ByTextIndex ==
    fn = "b85decode" =>
        (result = Raise("ValueError")
            <=> Misplaced(Unwrap(text, cfg.prefix, cfg.suffix), TextIndex))

\* C9 amended: a 'z' is accepted only where the number of symbols before it,
\* every earlier 'z' counted as five, is a multiple of 5; any other 'z' fails
\* with a ValueError.
C9_Compaction_ByExpandedIndex ==
    fn = "b85decode" =>
        (result = Raise("ValueError")
            <=> Misplaced(Unwrap(text, cfg.prefix, cfg.suffix), ExpandedIndex))

C9_Witness ==
    /\ fn = "b85decode"
    /\ text = <<33, 33, 122>>
    /\ result = Raise("ValueError")

\* C10: whitespace anywhere in a text does not change what Base58, Base62,
\* ASCII85 and RFC1924 decoding give: the same bytes or the same error as for
\* the text without the whitespace.
C10_Whitespace_Ignored ==
    LET bare == NoWhitespace(text)
    IN  /\ fn = "b58decode_naive" => result = b58decode_naive(bare)
        /\ fn = "b62decode_naive" => result = b62decode_naive(bare)
        /\ fn = "b85decode" =>
              result = b85decode(bare, cfg.prefix, cfg.suffix,
                                 ASCII85_ORDS, ASCII85_CHARS, TRUE)
        /\ fn = "rfc1924_b85decode" => result = rfc1924_b85decode(bare)

C10_Witness ==
    /\ fn = "b85decode"
    /\ text = <<115, 56, 10, 87, 45, 33, 32>>
    /\ result = Ok(<<255, 255, 255, 255>>)

AllOf(s, c) == \A i \in 1..Len(s) : s[i] = c

\* C11: Base58 and Base62 encode L zero bytes (L >= 0) as exactly L zero
\* symbols and nothing else, and decode a text of exactly L zero symbols to
\* exactly L zero bytes.
C11_AllZero ==
    /\ (fn = "b58encode_naive" /\ AllOf(raw, 0))
            => result = Ok(Repeat(ASCII58_CHARSET[0], Len(raw)))
    /\ (fn = "b62encode_naive" /\ AllOf(raw, 0))
            => result = Ok(Repeat(ASCII62_CHARSET[0], Len(raw)))
    /\ (fn = "b58decode_naive" /\ AllOf(text, ASCII58_CHARSET[0]))
            => result = Ok(Repeat(0, Len(text)))
    /\ (fn = "b62decode_naive" /\ AllOf(text, ASCII62_CHARSET[0]))
            => result = Ok(Repeat(0, Len(text)))

C11_Witness ==
    /\ fn = "b58decode_naive" /\ origin = "b58encode_naive"
    /\ raw = <<0, 0, 0>>
    /\ text = <<49, 49, 49>>
    /\ result = Ok(<<0, 0, 0>>)

ZeroGroup == <<0, 0, 0, 0>>

\* C12 as stated: the four zero bytes 0x00000000 are encoded as the single
\* symbol 'z' by ASCII85 with compaction and as "!!!!!" by RFC1924.
C12_ZeroGroup_Exclamations ==
    /\ (fn = "b85encode" /\ raw = ZeroGroup /\ cfg.compact)
            => result = Ok(cfg.prefix \o ZERO_GROUP_CHAR \o cfg.suffix)
    /\ (fn = "rfc1924_b85encode" /\ raw = ZeroGroup)
            => result = Ok(EXCLAMATION_CHUNK)

\* C12 amended: the four zero bytes 0x00000000 are encoded as the single
\* symbol 'z' by ASCII85 with compaction and as "00000", five times the
\* symbol of ordinal 0 of the RFC1924 alphabet, by RFC1924.
C12_ZeroGroup_ZeroSymbols ==
    /\ (fn = "b85encode" /\ raw = ZeroGroup /\ cfg.compact)
            => result = Ok(cfg.prefix \o ZERO_GROUP_CHAR \o cfg.suffix)
    /\ (fn = "rfc1924_b85encode" /\ raw = ZeroGroup)
            => result = Ok(<<48, 48, 48, 48, 48>>)

C12_Witness ==
    /\ fn = "rfc1924_b85encode" /\ raw = ZeroGroup
    /\ text = <<48, 48, 48, 48, 48>>

\* The symbols a decoder takes: those of its table, and 'z' for ASCII85.
Alphabet ==
    CASE fn = "b58decode_naive" -> DOMAIN ASCII58_ORDS
      [] fn = "b62decode_naive" -> DOMAIN ASCII62_ORDS
      [] fn = "b85decode" -> DOMAIN ASCII85_ORDS \cup {ZERO_GROUP_CHAR[1]}
      [] OTHER -> DOMAIN RFC1924_ORDS

\* The text the symbols are read from: without whitespace and, for ASCII85,
\* without the prefix and the suffix.
SymbolsRead ==
    IF fn = "b85decode" THEN Unwrap(text, cfg.prefix, cfg.suffix)
    ELSE NoWhitespace(text)

HasStraySymbol == \E i \in 1..Len(SymbolsRead) : SymbolsRead[i] \notin Alphabet

\* C13: every decoder fails with an error and returns nothing whenever the
\* text, whitespace removed, holds a symbol that is not in its alphabet.
C13_Stray_Symbol_Fails ==
    (fn \in Decoders /\ HasStraySymbol)
        => result.status \in {"KeyError", "OverflowError", "ValueError"}
           /\ result.val = <<>>

C13_Witness ==
    /\ fn = "rfc1924_b85decode"
    /\ text = NSC \o <<48, 34>>
    /\ result = Raise("OverflowError")

\* chars holds 85 pairwise distinct symbols and ords is its inverse, defined
\* for these symbols only.
IsBijection(chars, ords) ==
    /\ DOMAIN chars = 0..84
    /\ Cardinality({chars[i] : i \in 0..84}) = 85
    /\ DOMAIN ords = {chars[i] : i \in 0..84}
    /\ \A i \in 0..84 : ords[chars[i]] = i

\* C14: each Base85 table holds exactly 85 pairwise distinct symbols and its
\* lookup is the inverse of the table, defined for no other symbol; this is so
\* between the calls and when a Base85 encoder has returned (no call assigns
\* to a table).
C14_Tables_Bijective ==
    fn \in {"idle", "b85encode", "rfc1924_b85encode"} =>
        /\ IsBijection(ASCII85_CHARS, ASCII85_ORDS)
        /\ IsBijection(RFC1924_CHARS, RFC1924_ORDS)

C14_Witness ==
    /\ fn = "rfc1924_b85encode"
    /\ raw = <<255, 255, 255, 255>>
    /\ result = Ok(NSC \o <<48>>)
    /\ IsBijection(RFC1924_CHARS, RFC1924_ORDS)

\* C15: for low < high and any bytes from rand_func,
\* generate_random_ulong_between(low, high) raises nothing, and what it returns
\* is a value v with low <= v < high (low itself when high = low + 1).
C15_Random_Between ==
    (fn = "generate_random_ulong_between" /\ rnd.low < rnd.high) =>
        /\ rnd.status \in {"drawing", "ok"}
        /\ rnd.status = "ok" => (rnd.low <= rnd.ret /\ rnd.ret < rnd.high)

\* The symbols with every whole 5-symbol group "!!!!!", counted from offset
\* i, written as 'z'.
RECURSIVE CompactGroups(_, _)
CompactGroups(symbols, i) ==
    IF i >= Len(symbols) THEN <<>>
    ELSE LET group == SubSeq(symbols, i + 1, IF i + 5 <= Len(symbols) THEN i + 5
                                             ELSE Len(symbols))
         IN  (IF group = EXCLAMATION_CHUNK THEN ZERO_GROUP_CHAR ELSE group)
             \o CompactGroups(symbols, i + 5)

\* C16: in ASCII85 encoding with compaction every 'z' of the output stands for
\* one whole group of four zero bytes: the output is the uncompacted output
\* with each 5-symbol group "!!!!!" written as 'z' and nothing else changed; a
\* run of five '!' that lies across two groups stays as it is.
C16_Compaction_WholeGroups ==
    (fn = "b85encode" /\ cfg.compact) =>
        LET plain == b85encode(raw, <<>>, <<>>, cfg.padding, ASCII85_CHARS, FALSE).val
        IN  result = Ok(cfg.prefix \o CompactGroups(plain, 0) \o cfg.suffix)

\* The output of the encoder without its prefix and suffix.
EncodedBody == SubSeq(text, Len(cfg.prefix) + 1, Len(text) - Len(cfg.suffix))

\* C17: Base85 encoding without compaction of n bytes, with
\* padding_size = (4 - n mod 4) mod 4, gives 5 * ceil(n / 4) symbols when the
\* padding is kept and padding_size fewer when it is not; a partial last group
\* keeps at least 2 symbols, and what is removed is the end of the output
\* with the padding kept.
C17_Encoded_Length ==
    (fn = "rfc1924_b85encode" \/ (fn = "b85encode" /\ ~cfg.compact)) =>
        LET n == Len(raw)
            padding_size == (4 - (n % 4)) % 4
            groups == (n + 3) \div 4
            chars == IF fn = "b85encode" THEN ASCII85_CHARS ELSE RFC1924_CHARS
            padded == b85encode(raw, <<>>, <<>>, TRUE, chars, FALSE).val
        IN  /\ result.status = "ok"
            /\ Len(padded) = 5 * groups
            /\ Len(EncodedBody) = IF cfg.padding THEN 5 * groups
                                  ELSE 5 * groups - padding_size
            /\ EncodedBody = Take(padded, Len(EncodedBody))
            /\ padding_size # 0 => Len(EncodedBody) - 5 * (groups - 1) >= 2

C17_Witness ==
    /\ fn = "rfc1924_b85encode" /\ ~cfg.padding
    /\ Len(raw) = 5
    /\ Len(text) = 7

\* C18: Base85 decoding of m symbols (whitespace, prefix and suffix removed,
\* each 'z' written out), with padding_size = (5 - m mod 5) mod 5, decodes the
\* symbols followed by padding_size symbols of ordinal 84, and when it
\* succeeds returns 4 * ceil(m / 5) - padding_size bytes: the decoded bytes
\* without the last padding_size of them.
C18_Decoded_Length ==
    (fn \in Base85Decoders /\ result.status = "ok") =>
        LET m == Len(ChunkSymbols)
            padding_size == (5 - (m % 5)) % 5
            chunks == (m + 4) \div 5
            chars == IF fn = "b85decode" THEN ASCII85_CHARS ELSE RFC1924_CHARS
            ords == IF fn = "b85decode" THEN ASCII85_ORDS ELSE RFC1924_ORDS
            full == b85decode(ChunkSymbols \o Repeat(chars[84], padding_size),
                              <<>>, <<>>, ords, chars, FALSE)
        IN  /\ full.status = "ok"
            /\ Len(full.val) = 4 * chunks
            /\ Len(result.val) = 4 * chunks - padding_size
            /\ result.val = Take(full.val, 4 * chunks - padding_size)

C18_Witness ==
    /\ fn = "b85decode"
    /\ text = S8W \o <<33, 33, 33>>
    /\ result = Ok(<<255, 255, 255, 255, 0>>)

LeadingCount(s, c) ==
    CHOOSE k \in 0..Len(s) :
        /\ \A i \in 1..k : s[i] = c
        /\ k = Len(s) \/ s[k + 1] # c

\* C20: the Base58/Base62 encoding of x with exactly k leading zero bytes
\* starts with exactly k zero symbols: after them the output is at its end or
\* goes on with another symbol; decoding it gives back k leading zero bytes.
C20_Leading_Zeros ==
    /\ fn = "b58encode_naive" =>
            /\ result.status = "ok"
            /\ LeadingCount(result.val, ASCII58_CHARSET[0]) = LeadingCount(raw, 0)
    /\ fn = "b62encode_naive" =>
            /\ result.status = "ok"
            /\ LeadingCount(result.val, ASCII62_CHARSET[0]) = LeadingCount(raw, 0)
    /\ (fn = "b58decode_naive" /\ origin = "b58encode_naive") =>
            /\ result.status = "ok"
            /\ LeadingCount(result.val, 0) = LeadingCount(text, ASCII58_CHARSET[0])
            /\ LeadingCount(result.val, 0) = LeadingCount(raw, 0)
    /\ (fn = "b62decode_naive" /\ origin = "b62encode_naive") =>
            /\ result.status = "ok"
            /\ LeadingCount(result.val, 0) = LeadingCount(text, ASCII62_CHARSET[0])
            /\ LeadingCount(result.val, 0) = LeadingCount(raw, 0)

C20_Witness ==
    /\ fn = "b58encode_naive"
    /\ raw = <<0, 0, 58>>
    /\ result = Ok(<<49, 49, 50, 49>>)

=============================================================================
